---- MODULE Spec2Model ----
(***************************************************************************)
(* A model of the gdelt package: FetchLatestEvents polls the primary and,  *)
(* optionally, the translingual GDELT feed (manifest, export archive, GKG  *)
(* archive), decodes the two CSV files, links every event to the article   *)
(* with the same URL, and filters the merged events.                       *)
(*                                                                         *)
(* Strings that the code only compares are TLA+ strings.  Texts the code   *)
(* converts are sequences: a decimal text is a sequence over 0..10 (10 is  *)
(* any non-digit character), a uint64 is its canonical digit sequence, a   *)
(* page title is a sequence of characters with their UTF-8 byte widths.    *)
(***************************************************************************)
EXTENDS Integers, Sequences, FiniteSets, TLC

VARIABLES
    opts,       \* the Opts handed to FetchLatestEvents
    now,        \* time.Now(), read by filterEvents
    net,        \* what the two feeds serve: manifest, export and GKG responses
    pc,         \* position of the call
    feed,       \* the feed getLatestEvents is polling
    fr,         \* getLatestEvents: fileReferences
    evs,        \* getLatestEvents: decoded events
    articles,   \* getLatestEvents: decoded articles
    pollErr,    \* getLatestEvents: err
    a,          \* FetchLatestEvents: events of the primary feed
    b,          \* FetchLatestEvents: events of the translingual feed
    result,     \* FetchLatestEvents: returned events
    err,        \* FetchLatestEvents: returned error
    checks,     \* per feed and archive, the checks the fetch has run, in order
    cameo,      \* a call of Event.AllCameoEventCodes: receiver, position, result
    dec         \* a run of the loop of processEventFile or processArticleFile

vars == <<opts, now, net, pc, feed, fr, evs, articles, pollErr, a, b, result, err, checks,
          cameo, dec>>

-----------------------------------------------------------------------------
(* Bounds of the model. *)

\* Rows of one archive entry.
MaxRows == 2

-----------------------------------------------------------------------------
(* Program constants. *)

StatusOK == 200
EventColumns == 61
ArticleColumns == 27
DateAddedWidth == 14
ManifestRows == 3
ManifestFields == 3
MaxGeoType == 5
GeoTypeModulus == 256

LastUpdateURL == "primary"
LastUpdateTranslationURL == "translingual"
Feeds == {LastUpdateURL, LastUpdateTranslationURL}

-----------------------------------------------------------------------------
(* Errors.  fmt.Errorf with %w keeps the wrapped error in the chain, so a  *)
(* wrapped error keeps its type; ctx lists the wrapping messages.          *)

NoError == [type |-> "nil", StatusCode |-> 0, msg |-> "", ctx |-> <<>>]

NewBadStatusCodeError(statusCode) ==
    [type |-> "BadStatusCodeError", StatusCode |-> statusCode,
     msg |-> "bad HTTP response status code", ctx |-> <<>>]

NewError(m) == [type |-> "error", StatusCode |-> 0, msg |-> m, ctx |-> <<>>]

Wrap(m, e) == [e EXCEPT !.ctx = <<m>> \o @]

IsBadStatusCodeError(e) == e.type = "BadStatusCodeError"

-----------------------------------------------------------------------------
(* Event.DateAddedTime.                                                    *)

RECURSIVE StripZeros(_)
StripZeros(ds) ==
    IF Len(ds) > 1 /\ Head(ds) = 0 THEN StripZeros(Tail(ds)) ELSE ds

\* strconv.ParseUint(text, 10, 64) on a text of at most 19 characters.
ParseUint(text) ==
    IF Len(text) = 0 \/ \E i \in 1..Len(text) : text[i] > 9
    THEN [ok |-> FALSE, val |-> <<0>>]
    ELSE [ok |-> TRUE, val |-> StripZeros(text)]

RECURSIVE ZeroPad(_, _)
ZeroPad(ds, width) == IF Len(ds) < width THEN ZeroPad(<<0>> \o ds, width) ELSE ds

\* fmt.Sprintf("%014d", v)
Sprintf014d(v) == ZeroPad(v, DateAddedWidth)

Num2(s, i) == 10 * s[i] + s[i + 1]
Num4(s, i) == 1000 * s[i] + 100 * s[i + 1] + 10 * s[i + 2] + s[i + 3]

IsLeap(y) == y % 4 = 0 /\ (y % 100 # 0 \/ y % 400 = 0)

DaysIn(m, y) ==
    IF m = 2 THEN (IF IsLeap(y) THEN 29 ELSE 28)
    ELSE IF m \in {4, 6, 9, 11} THEN 30 ELSE 31

ZeroTime == <<1, 1, 1, 0, 0, 0>>

\* time.Parse("20060102150405", s), s a digit text: year, month, day, hour,
\* minute and second are read at fixed widths and range-checked.
TimeParse(s) ==
    IF Len(s) # 14 THEN [ok |-> FALSE, t |-> ZeroTime]
    ELSE LET y  == Num4(s, 1)
             mo == Num2(s, 5)
             d  == Num2(s, 7)
             h  == Num2(s, 9)
             mi == Num2(s, 11)
             se == Num2(s, 13)
         IN IF mo < 1 \/ mo > 12 \/ h > 23 \/ mi > 59 \/ se > 59
               \/ d < 1 \/ d > DaysIn(mo, y)
            THEN [ok |-> FALSE, t |-> ZeroTime]
            ELSE [ok |-> TRUE, t |-> <<y, mo, d, h, mi, se>>]

DateAddedTime(dateAdded) ==
    LET s == Sprintf014d(dateAdded)
    IN IF Len(s) # DateAddedWidth
       THEN [ok |-> FALSE, t |-> ZeroTime]
       ELSE TimeParse(s)

RECURSIVE TimeLess(_, _)
TimeLess(t, u) ==
    IF Len(t) = 0 THEN FALSE
    ELSE IF Head(t) # Head(u) THEN Head(t) < Head(u)
    ELSE TimeLess(Tail(t), Tail(u))

\* t.After(u)
After(t, u) == TimeLess(u, t)

-----------------------------------------------------------------------------
(* Values.  A pointer is Nil or Ref(x); ptr is the identity of the         *)
(* allocation (feed, row index) the decoder made for the row.              *)

Nil == <<>>
Ref(x) == <<x>>
Deref(p) == p[1]

IntText(v) == [isInt |-> TRUE, val |-> v]
NotInt == [isInt |-> FALSE, val |-> 0]

\* Characters of a page title and their UTF-8 widths.
Whitespace == {"sp", "tab"}
ByteWidth(c) == IF c = "e2" THEN 2 ELSE 1

RECURSIVE ByteLen(_)
ByteLen(s) == IF Len(s) = 0 THEN 0 ELSE ByteWidth(Head(s)) + ByteLen(Tail(s))

\* len([]rune(s))
RuneLen(s) == Len(s)

-----------------------------------------------------------------------------
(* The event decoder.                                                      *)

GeoTypeFromInt(value) ==
    IF value < 0 /\ value > MaxGeoType
    THEN [Type |-> 0, ok |-> FALSE]
    ELSE [Type |-> value % GeoTypeModulus, ok |-> TRUE]

\* readGeoData: field 0 of the block; the other fields are kept as read.
readGeoData(field) ==
    IF ~field.isInt THEN [g |-> [Type |-> 0], ok |-> FALSE]
    ELSE LET gt == GeoTypeFromInt(field.val)
         IN IF ~gt.ok THEN [g |-> [Type |-> gt.Type], ok |-> FALSE]
            ELSE [g |-> [Type |-> gt.Type], ok |-> TRUE]

\* csv.Reader.Read with FieldsPerRecord = 0: the first record sets the number
\* of fields, and a later record with another number is ErrFieldCount.
csvRead(row, fieldsPerRecord) ==
    IF fieldsPerRecord > 0
    THEN [ok |-> row.ncols = fieldsPerRecord, fieldsPerRecord |-> fieldsPerRecord]
    ELSE [ok |-> TRUE, fieldsPerRecord |-> row.ncols]

NoEvent == [ptr |-> <<>>, EventRootCode |-> "", Actor1Geo |-> [Type |-> 0],
            Actor2Geo |-> [Type |-> 0], ActionGeo |-> [Type |-> 0],
            DateAdded |-> <<0>>, SourceURL |-> "", GKGArticle |-> Nil]

\* eventsCsvReader.read on the next row; ptr names the new Event.
eventsCsvReader_read(row, fieldsPerRecord, ptr) ==
    LET rec == csvRead(row, fieldsPerRecord)
        g1  == readGeoData(row.geo[1])
        g2  == readGeoData(row.geo[2])
        g3  == readGeoData(row.geo[3])
        da  == ParseUint(row.dateAdded)
        bad == [event |-> NoEvent, ok |-> FALSE, fieldsPerRecord |-> rec.fieldsPerRecord]
    IN IF ~rec.ok THEN bad
       ELSE IF row.ncols # EventColumns THEN bad
       ELSE IF ~row.numsOK THEN bad
       ELSE IF ~g1.ok \/ ~g2.ok \/ ~g3.ok THEN bad
       ELSE IF ~da.ok THEN bad
       ELSE [event |-> [ptr |-> ptr, EventRootCode |-> row.root,
                        Actor1Geo |-> g1.g, Actor2Geo |-> g2.g, ActionGeo |-> g3.g,
                        DateAdded |-> da.val, SourceURL |-> row.url,
                        GKGArticle |-> Nil],
             ok |-> TRUE, fieldsPerRecord |-> rec.fieldsPerRecord]

\* The loop of processEventFile from row i on: a row that fails is logged and
\* skipped, end of stream ends the loop.
RECURSIVE processEventRows(_, _, _, _, _)
processEventRows(rows, i, fieldsPerRecord, records, f) ==
    IF i > Len(rows) THEN records
    ELSE LET r == eventsCsvReader_read(rows[i], fieldsPerRecord, <<f, i>>)
         IN processEventRows(rows, i + 1, r.fieldsPerRecord,
                IF r.ok THEN Append(records, r.event) ELSE records, f)

processEventFile(rows, f) ==
    [records |-> processEventRows(rows, 1, 0, <<>>, f), err |-> NoError]

-----------------------------------------------------------------------------
(* The article (GKG) decoder.                                              *)

RECURSIVE TrimLeft(_)
TrimLeft(s) == IF Len(s) > 0 /\ Head(s) = "sp" THEN TrimLeft(Tail(s)) ELSE s

RECURSIVE TrimRight(_)
TrimRight(s) ==
    IF Len(s) > 0 /\ s[Len(s)] = "sp" THEN TrimRight(SubSeq(s, 1, Len(s) - 1)) ELSE s

\* parseArticleExtras: the text between the PAGE_TITLE tags, every whitespace
\* character replaced by a space, then trimmed; empty without the tags.
parseArticleExtras(extras) ==
    IF ~extras.tag THEN [PageTitle |-> <<>>]
    ELSE LET s == [i \in 1..Len(extras.inner) |->
                      IF extras.inner[i] \in Whitespace THEN "sp" ELSE extras.inner[i]]
         IN [PageTitle |-> TrimRight(TrimLeft(s))]

NoArticle == [ptr |-> <<>>, ID |-> "", DocumentIdentifier |-> "",
              Extras |-> [PageTitle |-> <<>>]]

makeArticle(row, ptr) ==
    IF row.ncols # ArticleColumns
    THEN [a |-> NoArticle, err |-> NewError("expected 27 CSV columns")]
    ELSE [a |-> [ptr |-> ptr, ID |-> row.id, DocumentIdentifier |-> row.docId,
                 Extras |-> parseArticleExtras(row.extras)],
          err |-> NoError]

\* The loop of processArticleFile from row i on: a read error is logged and the
\* row skipped, an error of makeArticle is returned.
RECURSIVE processArticleRows(_, _, _, _, _)
processArticleRows(rows, i, fieldsPerRecord, records, f) ==
    IF i > Len(rows) THEN [records |-> records, err |-> NoError]
    ELSE LET rec == csvRead(rows[i], fieldsPerRecord)
             m   == makeArticle(rows[i], <<f, i>>)
         IN IF ~rec.ok
            THEN processArticleRows(rows, i + 1, rec.fieldsPerRecord, records, f)
            ELSE IF m.err # NoError
            THEN [records |-> <<>>, err |-> m.err]
            ELSE processArticleRows(rows, i + 1, rec.fieldsPerRecord,
                                    Append(records, m.a), f)

processArticleFile(rows, f) == processArticleRows(rows, 1, 0, <<>>, f)

-----------------------------------------------------------------------------
(* The manifest.  A URL is its stem and its suffix; a response body is the *)
(* sequence of its rows after TrimSpace and Split, a row its field count,  *)
(* its size text, its checksum and its URL.                                *)

ExportSuffix == ".export.CSV.zip"
MentionsSuffix == ".mentions.CSV.zip"
GKGSuffix == ".gkg.csv.zip"

EmptyURL == [stem |-> "", suffix |-> ""]
NoFileReference == [Size |-> 0, MD5Sum |-> "", URL |-> EmptyURL]
NoFileReferences ==
    [Export |-> NoFileReference, Mentions |-> NoFileReference, GKG |-> NoFileReference]

\* http.Get and the status check shared by httpGetFileReferences and httpGet.
httpGet(resp) ==
    IF resp.transport THEN [ok |-> FALSE, err |-> NewError("transport")]
    ELSE IF resp.status # StatusOK
    THEN [ok |-> FALSE, err |-> NewBadStatusCodeError(resp.status)]
    ELSE [ok |-> TRUE, err |-> NoError]

parseFileReferencesRow(row, frs) ==
    IF row.nfields # ManifestFields
    THEN [frs |-> frs, err |-> NewError("want 3 fields")]
    ELSE IF ~row.size.isInt
    THEN [frs |-> frs, err |-> NewError("failed to parse Size field as int")]
    ELSE LET ref == [Size |-> row.size.val, MD5Sum |-> row.md5, URL |-> row.url]
         IN IF row.url.suffix = ExportSuffix
            THEN [frs |-> [frs EXCEPT !.Export = ref], err |-> NoError]
            ELSE IF row.url.suffix = MentionsSuffix
            THEN [frs |-> [frs EXCEPT !.Mentions = ref], err |-> NoError]
            ELSE IF row.url.suffix = GKGSuffix
            THEN [frs |-> [frs EXCEPT !.GKG = ref], err |-> NoError]
            ELSE [frs |-> frs, err |-> NewError("unexpected suffix for URL")]

RECURSIVE parseRows(_, _, _)
parseRows(rows, i, frs) ==
    IF i > Len(rows) THEN [frs |-> frs, err |-> NoError]
    ELSE LET r == parseFileReferencesRow(rows[i], frs)
         IN IF r.err # NoError THEN [frs |-> NoFileReferences, err |-> r.err]
            ELSE parseRows(rows, i + 1, r.frs)

parseFileReferencesResponse(rows) ==
    IF Len(rows) # ManifestRows
    THEN [frs |-> NoFileReferences, err |-> NewError("want 3 rows")]
    ELSE parseRows(rows, 1, NoFileReferences)

getFileReferences(resp) ==
    LET got == httpGet(resp)
        frs == parseFileReferencesResponse(resp.rows)
    IN IF ~got.ok
       THEN [frs |-> NoFileReferences, err |-> Wrap("failed to HTTP get", got.err)]
       ELSE IF frs.err # NoError
       THEN [frs |-> NoFileReferences, err |-> Wrap("failed to parse response", frs.err)]
       ELSE [frs |-> frs.frs, err |-> NoError]

-----------------------------------------------------------------------------
(* The archives.  A response is the transport outcome, the status, and the *)
(* body: its byte length, its MD5 digest, whether it reads as a zip, and   *)
(* the rows of each of its entries.  trace lists the checks run, in order. *)

\* What a feed serves at a URL; http.Get of the empty URL fails.
NoResponse == [transport |-> TRUE, status |-> 0, len |-> 0, md5 |-> "",
               zip |-> FALSE, files |-> <<>>]

Serve(f, url) ==
    IF url.suffix = ExportSuffix THEN net[f].export
    ELSE IF url.suffix = GKGSuffix THEN net[f].gkg
    ELSE NoResponse

\* checkMD5Sum without the comparison.
checkMD5SumSkipped(content, expected) == NoError

checkMD5Sum(content, expected) ==
    IF content.md5 # expected THEN NewError("md5 sum") ELSE NoError

getEventsFromURL(resp, md5sum, size, f) ==
    LET got == httpGet(resp)
        fail(e, t) == [records |-> <<>>, err |-> e, trace |-> t]
    IN IF ~got.ok
       THEN fail(Wrap("failed to HTTP get", got.err), <<"status">>)
       ELSE IF resp.len # size
       THEN fail(NewError("expected content size"), <<"status", "size">>)
       ELSE IF checkMD5Sum(resp, md5sum) # NoError
       THEN fail(Wrap("failed to validate", checkMD5Sum(resp, md5sum)),
                 <<"status", "size", "md5">>)
       ELSE IF ~resp.zip
       THEN fail(NewError("zip reader error"), <<"status", "size", "md5", "zip">>)
       ELSE IF Len(resp.files) # 1
       THEN fail(NewError("want 1 file in zip"),
                 <<"status", "size", "md5", "zip", "entries">>)
       ELSE [records |-> processEventFile(resp.files[1], f).records,
             err |-> processEventFile(resp.files[1], f).err,
             trace |-> <<"status", "size", "md5", "zip", "entries", "decode">>]

\* getArticleFromURL comparing the checksum before the length.
getArticleFromURLChecksumFirst(resp, md5sum, size, f) ==
    LET got == httpGet(resp)
        fail(e, t) == [records |-> <<>>, err |-> e, trace |-> t]
    IN IF ~got.ok
       THEN fail(Wrap("failed to HTTP get", got.err), <<"status">>)
       ELSE IF checkMD5Sum(resp, md5sum) # NoError
       THEN fail(Wrap("failed to validate", checkMD5Sum(resp, md5sum)),
                 <<"status", "md5">>)
       ELSE IF resp.len # size
       THEN fail(NewError("expected content size"), <<"status", "md5", "size">>)
       ELSE IF ~resp.zip
       THEN fail(NewError("zip reader error"), <<"status", "md5", "size", "zip">>)
       ELSE IF Len(resp.files) # 1
       THEN fail(NewError("want 1 file in zip"),
                 <<"status", "md5", "size", "zip", "entries">>)
       ELSE [records |-> processArticleFile(resp.files[1], f).records,
             err |-> processArticleFile(resp.files[1], f).err,
             trace |-> <<"status", "md5", "size", "zip", "entries", "decode">>]

getArticleFromURL(resp, md5sum, size, f) ==
    LET got == httpGet(resp)
        fail(e, t) == [records |-> <<>>, err |-> e, trace |-> t]
    IN IF ~got.ok
       THEN fail(Wrap("failed to HTTP get", got.err), <<"status">>)
       ELSE IF resp.len # size
       THEN fail(NewError("expected content size"), <<"status", "size">>)
       ELSE IF checkMD5Sum(resp, md5sum) # NoError
       THEN fail(Wrap("failed to validate", checkMD5Sum(resp, md5sum)),
                 <<"status", "size", "md5">>)
       ELSE IF ~resp.zip
       THEN fail(NewError("zip reader error"), <<"status", "size", "md5", "zip">>)
       ELSE IF Len(resp.files) # 1
       THEN fail(NewError("want 1 file in zip"),
                 <<"status", "size", "md5", "zip", "entries">>)
       ELSE [records |-> processArticleFile(resp.files[1], f).records,
             err |-> processArticleFile(resp.files[1], f).err,
             trace |-> <<"status", "size", "md5", "zip", "entries", "decode">>]

-----------------------------------------------------------------------------
(* The join of getLatestEvents.                                            *)

\* The map am after the articles before index i: a duplicate
\* DocumentIdentifier is an error.
\* buildArticleMap letting a later article replace an earlier one with its
\* DocumentIdentifier.
RECURSIVE buildArticleMapLastWins(_, _, _)
buildArticleMapLastWins(arts, i, am) ==
    IF i > Len(arts) THEN [am |-> am, err |-> NoError]
    ELSE buildArticleMapLastWins(arts, i + 1,
            {x \in am : x.DocumentIdentifier # arts[i].DocumentIdentifier}
               \cup {arts[i]})

RECURSIVE buildArticleMap(_, _, _)
buildArticleMap(arts, i, am) ==
    IF i > Len(arts) THEN [am |-> am, err |-> NoError]
    ELSE IF \E x \in am : x.DocumentIdentifier = arts[i].DocumentIdentifier
    THEN [am |-> {}, err |-> NewError("duplicate document identifier in articles")]
    ELSE buildArticleMap(arts, i + 1, am \cup {arts[i]})

linkArticles(events, am) ==
    [i \in 1..Len(events) |->
        IF \E x \in am : x.DocumentIdentifier = events[i].SourceURL
        THEN [events[i] EXCEPT !.GKGArticle =
                 Ref(CHOOSE x \in am : x.DocumentIdentifier = events[i].SourceURL)]
        ELSE events[i]]

-----------------------------------------------------------------------------
(* The filter.                                                             *)

isEventCodeAllowed(allowedEventRootCodes, currentEventCode) ==
    IF Len(allowedEventRootCodes) = 0 THEN TRUE
    ELSE \E i \in 1..Len(allowedEventRootCodes) :
            allowedEventRootCodes[i] = currentEventCode

\* The title-length test of filterEvents.
titleTooLong(title, o) == RuneLen(title) > o.MaxTitleLength

\* passes without the test of the page title.
passesUntitled(ev, o, t) ==
    /\ ~(ev.SourceURL = "" \/ ev.GKGArticle = Nil)
    /\ DateAddedTime(ev.DateAdded).ok
    /\ ~(o.SkipFutureEvents /\ After(DateAddedTime(ev.DateAdded).t, t))
    /\ ~titleTooLong(Deref(ev.GKGArticle).Extras.PageTitle, o)
    /\ isEventCodeAllowed(o.AllowedCameoRootCodes, ev.EventRootCode)

\* The tests of filterEvents that do not depend on the events seen before.
passes(ev, o, t) ==
    /\ ~(ev.SourceURL = "" \/ ev.GKGArticle = Nil
         \/ ByteLen(Deref(ev.GKGArticle).Extras.PageTitle) = 0)
    /\ DateAddedTime(ev.DateAdded).ok
    /\ ~(o.SkipFutureEvents /\ After(DateAddedTime(ev.DateAdded).t, t))
    /\ ~titleTooLong(Deref(ev.GKGArticle).Extras.PageTitle, o)
    /\ isEventCodeAllowed(o.AllowedCameoRootCodes, ev.EventRootCode)

RECURSIVE filterLoop(_, _, _, _, _, _)

\* filterLoop recording the URL of every event, also of one it excludes.
RECURSIVE filterLoopMarksExcluded(_, _, _, _, _, _)
filterLoopMarksExcluded(events, i, o, t, res, visitedURLs) ==
    IF i > Len(events) THEN res
    ELSE IF ~passes(events[i], o, t)
    THEN filterLoopMarksExcluded(events, i + 1, o, t, res,
                                 visitedURLs \cup {events[i].SourceURL})
    ELSE IF events[i].SourceURL \in visitedURLs /\ o.SkipDuplicates
    THEN filterLoopMarksExcluded(events, i + 1, o, t, res, visitedURLs)
    ELSE filterLoopMarksExcluded(events, i + 1, o, t, Append(res, events[i]),
                                 visitedURLs \cup {events[i].SourceURL})

filterLoop(events, i, o, t, res, visitedURLs) ==
    IF i > Len(events) THEN res
    ELSE IF ~passes(events[i], o, t)
    THEN filterLoop(events, i + 1, o, t, res, visitedURLs)
    ELSE IF events[i].SourceURL \in visitedURLs /\ o.SkipDuplicates
    THEN filterLoop(events, i + 1, o, t, res, visitedURLs)
    ELSE filterLoop(events, i + 1, o, t, Append(res, events[i]),
                    visitedURLs \cup {events[i].SourceURL})

\* filterEvents putting each event it keeps before the ones kept so far.
RECURSIVE Reverse(_)
Reverse(q) == IF Len(q) = 0 THEN <<>> ELSE Append(Reverse(Tail(q)), Head(q))
filterEventsNewestFirst(events, o, t) == Reverse(filterLoop(events, 1, o, t, <<>>, {}))

filterEvents(events, o, t) == filterLoop(events, 1, o, t, <<>>, {})

-----------------------------------------------------------------------------
(* What the feeds may serve.                                               *)

SeqsUpTo(S, n) == UNION {[1..k -> S] : k \in 0..n}

Now0 == <<2024, 1, 1, 0, 0, 0>>
DatePast == <<2, 0, 2, 3, 0, 6, 1, 5, 1, 2, 0, 0, 0, 0>>
DateFuture == <<2, 0, 3, 1, 0, 6, 1, 5, 1, 2, 0, 0, 0, 0>>
\* 13 digits: 1230615120000
DateShort == <<1, 2, 3, 0, 6, 1, 5, 1, 2, 0, 0, 0, 0>>
\* 13 digits, the first 13 of DatePast
DateCut == <<2, 0, 2, 3, 0, 6, 1, 5, 1, 2, 0, 0, 0>>
DateLong == <<1>> \o DatePast
DateBadMonth == <<2, 0, 2, 3, 1, 3, 1, 5, 1, 2, 0, 0, 0, 0>>
DateBadDay == <<2, 0, 2, 3, 0, 2, 2, 9, 1, 2, 0, 0, 0, 0>>
DateNotDigits == <<2, 0, 2, 3, 10, 6>>
DateZero == <<0>>

GoodGeo == <<IntText(1), IntText(0), IntText(4)>>

EventRow(url, root, date) ==
    [ncols |-> EventColumns, numsOK |-> TRUE, geo |-> GoodGeo,
     dateAdded |-> date, root |-> root, url |-> url]

\* Rows that differ in what the filter reads.
FilterRows ==
    {EventRow("u1", "14", DatePast), EventRow("u2", "14", DatePast),
     EventRow("u1", "02", DatePast), EventRow("u1", "14", DateFuture),
     EventRow("", "14", DatePast)}

\* Rows that differ in what the decoder reads.
DecoderRows ==
    FilterRows
    \cup {[EventRow("u2", "14", DatePast) EXCEPT !.ncols = n] :
             n \in {EventColumns - 1, EventColumns + 1}}
    \cup {[EventRow("u2", "14", DatePast) EXCEPT !.numsOK = FALSE]}
    \cup {[EventRow("u2", "14", DatePast) EXCEPT !.geo[k] = IntText(MaxGeoType + k)] :
             k \in 1..3}
    \cup {[EventRow("u2", "14", DatePast) EXCEPT !.geo[1] = g] : g \in {IntText(-1), NotInt}}
    \cup {EventRow("u1", "14", d) :
             d \in {DateShort, DateCut, DateLong, DateBadMonth, DateBadDay,
                    DateNotDigits, DateZero}}

\* Titles of MaxTitle and of MaxTitle + 1 code points; the first has more
\* bytes than code points and is surrounded by whitespace in the file.
MaxTitle == 2
ExactTitle == [i \in 1..MaxTitle |-> IF i = 1 THEN "e2" ELSE "a"]
LongTitle == [i \in 1..(MaxTitle + 1) |-> "a"]

Extras(inner) == [tag |-> TRUE, inner |-> inner]
NoExtras == [tag |-> FALSE, inner |-> <<>>]

ArticleRow(docId, extras) ==
    [ncols |-> ArticleColumns, id |-> docId, docId |-> docId, extras |-> extras]

ExtrasSet ==
    {Extras(<<"sp">> \o ExactTitle \o <<"tab">>), Extras(LongTitle), NoExtras,
     Extras(<<"tab">>)}

\* GKG files with at most one article for a URL.
ArticleFiles ==
    {x \o y : x \in {<<>>} \cup {<<ArticleRow("u1", e)>> : e \in ExtrasSet},
              y \in {<<>>, <<ArticleRow("u2", Extras(ExactTitle))>>}}

ArticleRows ==
    {ArticleRow(u, e) : u \in {"u1", "u2"}, e \in {Extras(ExactTitle), NoExtras}}
    \cup {[ArticleRow("u2", Extras(ExactTitle)) EXCEPT !.ncols = n] :
             n \in {ArticleColumns - 1, ArticleColumns + 1}}

ExportSize == 3
GKGSize == 4

ManifestRow(size, md5, f, suffix) ==
    [nfields |-> ManifestFields, size |-> size, md5 |-> md5,
     url |-> [stem |-> f, suffix |-> suffix]]

ExportRow(f) == ManifestRow(IntText(ExportSize), "md5-export", f, ExportSuffix)
MentionsRow(f) == ManifestRow(IntText(ExportSize + GKGSize), "md5-mentions", f, MentionsSuffix)
GKGRow(f) == ManifestRow(IntText(GKGSize), "md5-gkg", f, GKGSuffix)

GoodManifest(f) ==
    [transport |-> FALSE, status |-> StatusOK,
     rows |-> <<ExportRow(f), MentionsRow(f), GKGRow(f)>>]

GoodExport(rows) ==
    [transport |-> FALSE, status |-> StatusOK, len |-> ExportSize,
     md5 |-> "md5-export", zip |-> TRUE, files |-> <<rows>>]

GoodGKG(rows) ==
    [transport |-> FALSE, status |-> StatusOK, len |-> GKGSize,
     md5 |-> "md5-gkg", zip |-> TRUE, files |-> <<rows>>]

GoodFeed(f, rows, arts) ==
    [manifest |-> GoodManifest(f), export |-> GoodExport(rows), gkg |-> GoodGKG(arts)]

\* Every way an archive response can fail the checks of the fetch.
ArchiveFaults(x) ==
    {[x EXCEPT !.status = st, !.len = l, !.md5 = m, !.zip = z, !.files = fs] :
        st \in {StatusOK, 404}, l \in {x.len, x.len + 1},
        m \in {x.md5, "md5-other"}, z \in BOOLEAN,
        fs \in {<<>>, x.files, x.files \o x.files}}
    \cup {[x EXCEPT !.transport = TRUE]}

\* Manifest responses: answered or not, and the bodies the parser may meet.
ManifestBodies(f) ==
    {<<ExportRow(f), MentionsRow(f), GKGRow(f)>>,
     <<GKGRow(f), ExportRow(f), MentionsRow(f)>>,
     <<ExportRow(f), GKGRow(f)>>,
     <<ExportRow(f), MentionsRow(f), GKGRow(f), GKGRow(f)>>,
     <<>>,
     <<ExportRow(f), [MentionsRow(f) EXCEPT !.nfields = ManifestFields - 1], GKGRow(f)>>,
     <<ExportRow(f), MentionsRow(f), [GKGRow(f) EXCEPT !.size = NotInt]>>,
     <<ExportRow(f), MentionsRow(f), [GKGRow(f) EXCEPT !.url.suffix = ".txt"]>>,
     <<ExportRow(f), ExportRow(f), GKGRow(f)>>,
     <<ExportRow(f), MentionsRow(f), MentionsRow(f)>>,
     <<MentionsRow(f), GKGRow(f), GKGRow(f)>>}

ManifestFaults(f) ==
    {[transport |-> FALSE, status |-> st, rows |-> rows] :
        st \in {StatusOK, 404, 503}, rows \in ManifestBodies(f)}
    \cup {[GoodManifest(f) EXCEPT !.transport = TRUE]}

BaseRows == <<EventRow("u1", "14", DatePast)>>
BaseArticles ==
    <<ArticleRow("u1", Extras(ExactTitle)), ArticleRow("u2", Extras(ExactTitle))>>
BaseFeed(f) == GoodFeed(f, BaseRows, BaseArticles)

\* Feeds with one response at fault.
FaultFeeds(f) ==
    {[BaseFeed(f) EXCEPT !.manifest = m] : m \in ManifestFaults(f)}
    \cup {[BaseFeed(f) EXCEPT !.export = x] : x \in ArchiveFaults(BaseFeed(f).export)}
    \cup {[BaseFeed(f) EXCEPT !.gkg = x] : x \in ArchiveFaults(BaseFeed(f).gkg)}

\* Feeds that answer a request with status 404.
SoftFeeds(f) ==
    {[BaseFeed(f) EXCEPT !.manifest.status = 404],
     [BaseFeed(f) EXCEPT !.export.status = 404],
     [BaseFeed(f) EXCEPT !.gkg.status = 404]}

World(p, q) == [primary |-> p, translingual |-> q]

DefaultAllowed == <<"13", "14">>

Opts(dup, future, maxTitle, translingual, allowed) ==
    [SkipDuplicates |-> dup, SkipFutureEvents |-> future, MaxTitleLength |-> maxTitle,
     Translingual |-> translingual, AllowedCameoRootCodes |-> allowed]

\* DefaultOpts, with the title limit scaled to the titles of the model.
DefaultOpts == Opts(TRUE, TRUE, MaxTitle, FALSE, DefaultAllowed)
NoFilterOpts == Opts(FALSE, FALSE, MaxTitle + 1, FALSE, <<>>)

FilterOpts ==
    {Opts(d, s, m, FALSE, al) : d \in BOOLEAN, s \in BOOLEAN, m \in {0, MaxTitle},
                                al \in {<<>>, DefaultAllowed}}

TranslingualOpts ==
    {Opts(d, TRUE, m, TRUE, DefaultAllowed) : d \in BOOLEAN, m \in {0, MaxTitle}}
    \cup {Opts(d, FALSE, MaxTitle, TRUE, <<>>) : d \in BOOLEAN}

MergeTitles == {Extras(ExactTitle), Extras(LongTitle)}
MergeArticles(e) == <<ArticleRow("u1", e), ArticleRow("u2", Extras(ExactTitle))>>
MergeRows == {EventRow("u1", "14", DatePast), EventRow("u2", "14", DatePast)}

\* One feed, any events and articles, any filter.
ContentScenario ==
    \E rows \in SeqsUpTo(FilterRows, MaxRows), arts \in ArticleFiles, o \in FilterOpts :
        /\ net = World(GoodFeed(LastUpdateURL, rows, arts),
                       BaseFeed(LastUpdateTranslationURL))
        /\ opts = o

\* Two feeds whose events share URLs.
MergeScenario ==
    \E rows \in SeqsUpTo(FilterRows, MaxRows), e1 \in MergeTitles,
       rows2 \in SeqsUpTo(MergeRows, MaxRows - 1), e2 \in MergeTitles,
       o \in TranslingualOpts :
        /\ net = World(GoodFeed(LastUpdateURL, rows, MergeArticles(e1)),
                       GoodFeed(LastUpdateTranslationURL, rows2, MergeArticles(e2)))
        /\ opts = o

\* One feed, any rows in the export file.
EventDecodeScenario ==
    \E rows \in SeqsUpTo(DecoderRows, MaxRows), o \in {DefaultOpts, NoFilterOpts} :
        /\ net = World(GoodFeed(LastUpdateURL, rows, BaseArticles),
                       BaseFeed(LastUpdateTranslationURL))
        /\ opts = o

\* One feed, any rows in the GKG file.
ArticleDecodeScenario ==
    \E arts \in SeqsUpTo(ArticleRows, MaxRows), o \in {DefaultOpts, NoFilterOpts} :
        /\ net = World(GoodFeed(LastUpdateURL, BaseRows, arts),
                       BaseFeed(LastUpdateTranslationURL))
        /\ opts = o

\* One response at fault in the primary feed.
PrimaryFaultScenario ==
    \E p \in FaultFeeds(LastUpdateURL), t \in BOOLEAN :
        /\ net = World(p, BaseFeed(LastUpdateTranslationURL))
        /\ opts = [DefaultOpts EXCEPT !.Translingual = t]

\* One response at fault in the translingual feed, after a primary feed that
\* answers or that answers 404.
TranslingualFaultScenario ==
    \E p \in {BaseFeed(LastUpdateURL)} \cup SoftFeeds(LastUpdateURL),
       q \in FaultFeeds(LastUpdateTranslationURL) :
        /\ net = World(p, q)
        /\ opts = [DefaultOpts EXCEPT !.Translingual = TRUE]

-----------------------------------------------------------------------------
(* The call FetchLatestEvents(opts).                                       *)

NoChecks == [export |-> <<>>, gkg |-> <<>>]

\* No call of AllCameoEventCodes and no decode loop under way.
NoCameo == [pc |-> "idle", e |-> [EventRootCode |-> "", EventBaseCode |-> "", EventCode |-> ""],
            s |-> <<>>]
NoDecode == [pc |-> "idle", kind |-> "events", stream |-> <<>>, pos |-> 1, i |-> 0,
             fieldsPerRecord |-> 0, records |-> <<>>, err |-> NoError]

Init ==
    /\ \/ ContentScenario
       \/ MergeScenario
       \/ EventDecodeScenario
       \/ ArticleDecodeScenario
       \/ PrimaryFaultScenario
       \/ TranslingualFaultScenario
    /\ now = Now0
    /\ pc = "getFileReferences"
    /\ feed = LastUpdateURL
    /\ fr = NoFileReferences
    /\ evs = <<>>
    /\ articles = <<>>
    /\ pollErr = NoError
    /\ a = <<>>
    /\ b = <<>>
    /\ result = <<>>
    /\ err = NoError
    /\ checks = [f \in Feeds |-> NoChecks]
    /\ cameo = NoCameo
    /\ dec = NoDecode

\* getLatestEvents: getFileReferences(url).
GetFileReferences ==
    /\ UNCHANGED <<cameo, dec>>
    /\ pc = "getFileReferences"
    /\ LET r == getFileReferences(net[feed].manifest)
       IN IF r.err # NoError
          THEN /\ pollErr' = r.err
               /\ pc' = "pollReturn"
               /\ fr' = fr
          ELSE /\ fr' = r.frs
               /\ pc' = "getEvents"
               /\ pollErr' = pollErr
    /\ UNCHANGED <<opts, now, net, feed, evs, articles, a, b, result, err, checks>>

\* getLatestEvents: getEventsFromURL(fr.Export...).
GetEventsFromURL ==
    /\ UNCHANGED <<cameo, dec>>
    /\ pc = "getEvents"
    /\ LET r == getEventsFromURL(Serve(feed, fr.Export.URL), fr.Export.MD5Sum,
                                 fr.Export.Size, feed)
       IN /\ checks' = [checks EXCEPT ![feed].export = r.trace]
          /\ IF r.err # NoError
             THEN /\ pollErr' = Wrap("failed to get export data", r.err)
                  /\ pc' = "pollReturn"
                  /\ evs' = <<>>
             ELSE /\ evs' = r.records
                  /\ pc' = "getArticles"
                  /\ pollErr' = pollErr
    /\ UNCHANGED <<opts, now, net, feed, fr, articles, a, b, result, err>>

\* getLatestEvents: getArticleFromURL(fr.GKG...); on an error the events are
\* not returned.
GetArticleFromURL ==
    /\ UNCHANGED <<cameo, dec>>
    /\ pc = "getArticles"
    /\ LET r == getArticleFromURL(Serve(feed, fr.GKG.URL), fr.GKG.MD5Sum,
                                  fr.GKG.Size, feed)
       IN /\ checks' = [checks EXCEPT ![feed].gkg = r.trace]
          /\ IF r.err # NoError
             THEN /\ pollErr' = Wrap("failed to get GKG data", r.err)
                  /\ pc' = "pollReturn"
                  /\ evs' = <<>>
                  /\ articles' = articles
             ELSE /\ articles' = r.records
                  /\ pc' = "correlate"
                  /\ pollErr' = pollErr
                  /\ evs' = evs
    /\ UNCHANGED <<opts, now, net, feed, fr, a, b, result, err>>

\* getLatestEvents: the article map and the link of every event.
Correlate ==
    /\ UNCHANGED <<cameo, dec>>
    /\ pc = "correlate"
    /\ LET m == buildArticleMap(articles, 1, {})
       IN IF m.err # NoError
          THEN /\ pollErr' = m.err
               /\ evs' = <<>>
          ELSE /\ evs' = linkArticles(evs, m.am)
               /\ pollErr' = pollErr
    /\ pc' = "pollReturn"
    /\ UNCHANGED <<opts, now, net, feed, fr, articles, a, b, result, err, checks>>

\* deferred without the downgrade of a bad status.
deferredKeepsError(e) == e

\* The deferred function of getLatestEvents.
deferred(e) == IF IsBadStatusCodeError(e) THEN NoError ELSE e

\* getLatestEvents returns through its deferred function to
\* FetchLatestEvents, which returns the error, polls the translingual feed
\* or goes on to the filter.
PollReturn ==
    /\ UNCHANGED <<cameo, dec>>
    /\ pc = "pollReturn"
    /\ LET e == deferred(pollErr)
       IN IF e # NoError
          THEN /\ err' = Wrap("failed to get latest events from", e)
               /\ result' = <<>>
               /\ pc' = "done"
               /\ UNCHANGED <<a, b, feed>>
          ELSE IF feed = LastUpdateURL
          THEN /\ a' = evs
               /\ pc' = IF opts.Translingual THEN "getFileReferences" ELSE "filter"
               /\ feed' = IF opts.Translingual THEN LastUpdateTranslationURL ELSE feed
               /\ UNCHANGED <<b, result, err>>
          ELSE /\ b' = evs
               /\ pc' = "filter"
               /\ UNCHANGED <<a, feed, result, err>>
    /\ fr' = NoFileReferences
    /\ evs' = <<>>
    /\ articles' = <<>>
    /\ pollErr' = NoError
    /\ UNCHANGED <<opts, now, net, checks>>

\* FetchLatestEvents: filterEvents(a, opts) or filterEvents(append(a, b...), opts).
FilterEvents ==
    /\ UNCHANGED <<cameo, dec>>
    /\ pc = "filter"
    /\ result' = filterEvents(IF opts.Translingual THEN a \o b ELSE a, opts, now)
    /\ err' = NoError
    /\ pc' = "done"
    /\ UNCHANGED <<opts, now, net, feed, fr, evs, articles, pollErr, a, b, checks>>

Next ==
    \/ GetFileReferences
    \/ GetEventsFromURL
    \/ GetArticleFromURL
    \/ Correlate
    \/ PollReturn
    \/ FilterEvents

Spec == Init /\ [][Next]_vars

-----------------------------------------------------------------------------
(* A call of Event.AllCameoEventCodes on an event with any three codes.    *)

\* No call of FetchLatestEvents under way.
Idle ==
    /\ opts = DefaultOpts
    /\ now = Now0
    /\ net = World(BaseFeed(LastUpdateURL), BaseFeed(LastUpdateTranslationURL))
    /\ pc = "idle"
    /\ feed = LastUpdateURL
    /\ fr = NoFileReferences
    /\ evs = <<>>
    /\ articles = <<>>
    /\ pollErr = NoError
    /\ a = <<>>
    /\ b = <<>>
    /\ result = <<>>
    /\ err = NoError
    /\ checks = [f \in Feeds |-> NoChecks]

mainVars == <<opts, now, net, pc, feed, fr, evs, articles, pollErr, a, b, result, err, checks>>

\* AllCameoEventCodes without the comparison of EventCode with EventRootCode.
AllCameoEventCodesParentOnly(e) ==
    IF e.EventRootCode = "" THEN <<>>
    ELSE IF e.EventBaseCode = e.EventRootCode \/ e.EventBaseCode = ""
    THEN <<e.EventRootCode>>
    ELSE IF e.EventCode = e.EventBaseCode \/ e.EventCode = ""
    THEN <<e.EventRootCode, e.EventBaseCode>>
    ELSE <<e.EventRootCode, e.EventBaseCode, e.EventCode>>

AllCameoEventCodes(e) ==
    IF e.EventRootCode = "" THEN <<>>
    ELSE IF e.EventBaseCode = e.EventRootCode \/ e.EventBaseCode = ""
    THEN <<e.EventRootCode>>
    ELSE IF e.EventCode = e.EventBaseCode \/ e.EventCode = e.EventRootCode
            \/ e.EventCode = ""
    THEN <<e.EventRootCode, e.EventBaseCode>>
    ELSE <<e.EventRootCode, e.EventBaseCode, e.EventCode>>

CameoCodes == {"", "02", "025", "0251", "03"}

CameoInit ==
    /\ Idle
    /\ dec = NoDecode
    /\ \E root \in CameoCodes, base \in CameoCodes, code \in CameoCodes :
          cameo = [pc |-> "call",
                   e |-> [EventRootCode |-> root, EventBaseCode |-> base,
                          EventCode |-> code],
                   s |-> <<>>]

CallAllCameoEventCodes ==
    /\ cameo.pc = "call"
    /\ cameo' = [cameo EXCEPT !.pc = "returned", !.s = AllCameoEventCodes(cameo.e)]
    /\ UNCHANGED <<mainVars, dec>>

CameoNext == CallAllCameoEventCodes

CameoSpec == CameoInit /\ [][CameoNext]_vars

-----------------------------------------------------------------------------
(* The loops of processEventFile and processArticleFile, one iteration a   *)
(* step.  The stream is what the csv.Reader meets in the archive entry:    *)
(* rows, lines it cannot parse, and at most one read error of the reader   *)
(* below it (zip checksum, corrupt or truncated deflate data), which that  *)
(* reader returns again on every later read.  pos is the next item of the  *)
(* stream, i the loop counter.                                             *)

MaxIterations == 6

Row(r) == [type |-> "row", row |-> r]
ParseError == [type |-> "quote"]
ReadError == [type |-> "fault"]

EventItems ==
    {Row(EventRow("u1", "14", DatePast)),
     Row([EventRow("u2", "14", DatePast) EXCEPT !.ncols = EventColumns - 1]),
     Row([EventRow("u2", "14", DatePast) EXCEPT !.numsOK = FALSE]),
     ParseError}

ArticleItems ==
    {Row(ArticleRow("u1", Extras(ExactTitle))), Row(ArticleRow("u2", NoExtras)),
     Row([ArticleRow("u2", Extras(ExactTitle)) EXCEPT !.ncols = ArticleColumns - 1])}

DecodeInit ==
    /\ Idle
    /\ cameo = NoCameo
    /\ \E kind \in {"events", "articles"} :
       \E items \in SeqsUpTo(IF kind = "events" THEN EventItems ELSE ArticleItems, MaxRows),
          tail \in {<<>>, <<ReadError>>} :
          dec = [NoDecode EXCEPT !.pc = "loop", !.kind = kind, !.stream = items \o tail]

\* One iteration of the loop of processEventFile.
ProcessEventFileStep ==
    /\ dec.pc = "loop"
    /\ dec.kind = "events"
    /\ dec.i < MaxIterations
    /\ dec' =
          IF dec.pos > Len(dec.stream)
          THEN [dec EXCEPT !.pc = "returned"]
          ELSE LET item == dec.stream[dec.pos]
               IN IF item.type = "fault"
                  THEN [dec EXCEPT !.i = @ + 1]
                  ELSE IF item.type = "quote"
                  THEN [dec EXCEPT !.i = @ + 1, !.pos = @ + 1]
                  ELSE LET r == eventsCsvReader_read(item.row, dec.fieldsPerRecord,
                                                     <<LastUpdateURL, dec.pos>>)
                       IN [dec EXCEPT !.i = @ + 1, !.pos = @ + 1,
                                      !.fieldsPerRecord = r.fieldsPerRecord,
                                      !.records = IF r.ok THEN Append(@, r.event) ELSE @]
    /\ UNCHANGED <<mainVars, cameo>>

\* One iteration of the loop of processArticleFile.
ProcessArticleFileStep ==
    /\ dec.pc = "loop"
    /\ dec.kind = "articles"
    /\ dec.i < MaxIterations
    /\ dec' =
          IF dec.pos > Len(dec.stream)
          THEN [dec EXCEPT !.pc = "returned"]
          ELSE LET item == dec.stream[dec.pos]
               IN IF item.type = "fault"
                  THEN [dec EXCEPT !.i = @ + 1]
                  ELSE LET rec == csvRead(item.row, dec.fieldsPerRecord)
                           m   == makeArticle(item.row, <<LastUpdateURL, dec.pos>>)
                       IN IF ~rec.ok
                          THEN [dec EXCEPT !.i = @ + 1, !.pos = @ + 1]
                          ELSE IF m.err # NoError
                          THEN [dec EXCEPT !.pc = "returned", !.pos = @ + 1,
                                           !.fieldsPerRecord = rec.fieldsPerRecord,
                                           !.records = <<>>, !.err = m.err]
                          ELSE [dec EXCEPT !.i = @ + 1, !.pos = @ + 1,
                                           !.fieldsPerRecord = rec.fieldsPerRecord,
                                           !.records = Append(@, m.a)]
    /\ UNCHANGED <<mainVars, cameo>>

DecodeNext ==
    \/ ProcessEventFileStep
    \/ ProcessArticleFileStep

DecodeSpec == DecodeInit /\ [][DecodeNext]_vars

-----------------------------------------------------------------------------
(* What the claims speak of.                                               *)

\* The events FetchLatestEvents hands to filterEvents.
FilterInput == IF opts.Translingual THEN a \o b ELSE a

Finished == pc = "done" /\ err = NoError

Title(ev) == Deref(ev.GKGArticle).Extras.PageTitle

Range(s) == {s[i] : i \in 1..Len(s)}

\* The outcome the specification gives a poll, read off what the feed serves:
\* "soft" when the first request that fails answers with a status other than
\* 200, "hard" when it fails in any other way, "ok" when none fails.
KnownSuffixes == {ExportSuffix, MentionsSuffix, GKGSuffix}

Malformed(rows) ==
    \/ Len(rows) # ManifestRows
    \/ \E i \in 1..Len(rows) :
          \/ rows[i].nfields # ManifestFields
          \/ ~rows[i].size.isInt
          \/ rows[i].url.suffix \notin KnownSuffixes

\* The reference a well-formed manifest declares for a suffix: its last row
\* with the suffix, none when no row has it.
Declared(rows, suffix) ==
    LET at == {i \in 1..Len(rows) : rows[i].url.suffix = suffix}
    IN IF at = {} THEN [present |-> FALSE, size |-> 0, md5 |-> ""]
       ELSE LET i == CHOOSE i \in at : \A j \in at : j <= i
            IN [present |-> TRUE, size |-> rows[i].size.val, md5 |-> rows[i].md5]

ManifestClass(m) ==
    IF m.transport THEN "hard"
    ELSE IF m.status # StatusOK THEN "soft"
    ELSE IF Malformed(m.rows) THEN "hard"
    ELSE "ok"

Intact(x, d) ==
    x.len = d.size /\ x.md5 = d.md5 /\ x.zip /\ Len(x.files) = 1

ArchiveClass(x, d) ==
    IF ~d.present \/ x.transport THEN "hard"
    ELSE IF x.status # StatusOK THEN "soft"
    ELSE IF ~Intact(x, d) THEN "hard"
    ELSE "ok"

DuplicateArticles(rows) ==
    \E i, j \in 1..Len(rows) :
        /\ i < j
        /\ rows[i].ncols = ArticleColumns
        /\ rows[j].ncols = ArticleColumns
        /\ rows[i].docId = rows[j].docId

PollClass(f) ==
    LET m == net[f].manifest
        x == ArchiveClass(net[f].export, Declared(m.rows, ExportSuffix))
        g == ArchiveClass(net[f].gkg, Declared(m.rows, GKGSuffix))
    IN IF ManifestClass(m) # "ok" THEN ManifestClass(m)
       ELSE IF x # "ok" THEN x
       ELSE IF g # "ok" THEN g
       ELSE IF DuplicateArticles(net[f].gkg.files[1]) THEN "hard"
       ELSE "ok"

SoftFailure(f) == PollClass(f) = "soft"
HardFailure(f) == PollClass(f) = "hard"

\* A poll that fails softly or not at all, and whose GKG rows all have the
\* columns of an article.
SoftOrSound(f) ==
    \/ SoftFailure(f)
    \/ /\ PollClass(f) = "ok"
       /\ \A i \in 1..Len(net[f].gkg.files[1]) :
             net[f].gkg.files[1][i].ncols = ArticleColumns

PolledFeeds == IF opts.Translingual THEN Feeds ELSE {LastUpdateURL}

\* getLatestEvents has returned to FetchLatestEvents for the feed.
Returned(f) ==
    IF f = LastUpdateURL
    THEN feed = LastUpdateTranslationURL \/ pc \in {"filter", "done"}
    ELSE feed = LastUpdateTranslationURL /\ pc \in {"filter", "done"}

EventsOf(f) == IF f = LastUpdateURL THEN a ELSE b

-----------------------------------------------------------------------------
\* C1: every event FetchLatestEvents returns has a non-empty SourceURL, a
\* non-nil GKGArticle and a non-empty page title.
C1_ReturnedEventsHaveTitledArticle ==
    \A i \in 1..Len(result) :
        /\ result[i].SourceURL # ""
        /\ result[i].GKGArticle # Nil
        /\ ByteLen(Title(result[i])) > 0

\* An event is returned while the input also held an event with a URL and an
\* article whose title is empty.
C1_Witness ==
    /\ Finished
    /\ Len(result) > 0
    /\ \E i \in 1..Len(FilterInput) :
          /\ FilterInput[i].SourceURL # ""
          /\ FilterInput[i].GKGArticle # Nil
          /\ Title(FilterInput[i]) = <<>>

\* C2: a feed that answers a request with a status other than 200 gives no
\* events and no error: the other feed is still polled, the filter still runs
\* and the call returns a nil error.
C2_BadStatusIsNoEventsNoError ==
    /\ \A f \in Feeds : SoftFailure(f) /\ Returned(f) => EventsOf(f) = <<>>
    /\ pc = "done" /\ SoftFailure(LastUpdateURL) /\ opts.Translingual
          => feed = LastUpdateTranslationURL
    /\ /\ pc = "done"
       /\ \E f \in PolledFeeds : SoftFailure(f)
       /\ \A f \in PolledFeeds : SoftOrSound(f)
       => /\ err = NoError
          /\ \A f \in PolledFeeds : \A i \in 1..Len(EventsOf(f)) :
                passes(EventsOf(f)[i], opts, now)
                   => \E k \in 1..Len(result) :
                         result[k].SourceURL = EventsOf(f)[i].SourceURL

\* The primary feed answers 404 and the call returns the events of the
\* translingual feed.
C2_Witness ==
    /\ Finished
    /\ SoftFailure(LastUpdateURL)
    /\ opts.Translingual
    /\ Len(result) > 0
    /\ result[1].ptr[1] = LastUpdateTranslationURL

\* C3: a hard failure in the poll of a feed makes FetchLatestEvents return an
\* error and no events, also when the primary feed had been polled with
\* success before.
C3_HardFailureIsErrorNoEvents ==
    /\ pc = "done"
    /\ \/ HardFailure(LastUpdateURL)
       \/ opts.Translingual /\ HardFailure(LastUpdateTranslationURL)
    => err # NoError /\ result = <<>>

\* The primary feed gave events and the translingual feed failed hard.
C3_Witness ==
    /\ pc = "done"
    /\ PollClass(LastUpdateURL) = "ok"
    /\ Len(a) > 0
    /\ opts.Translingual
    /\ HardFailure(LastUpdateTranslationURL)
    /\ err # NoError

\* The first event of the input with its URL that passes the tests.
FirstPassing(k) ==
    /\ passes(FilterInput[k], opts, now)
    /\ \A j \in 1..(k - 1) :
          FilterInput[j].SourceURL = FilterInput[k].SourceURL
             => ~passes(FilterInput[j], opts, now)

\* C4: with SkipDuplicates the result holds at most one event for a URL, and
\* it is the first event of the input with that URL that passes the other
\* tests; an earlier event that fails them does not count as seen.
C4_FirstPassingEventOfEachURL ==
    Finished /\ opts.SkipDuplicates =>
        /\ \A i, j \in 1..Len(result) :
              i # j => result[i].SourceURL # result[j].SourceURL
        /\ \A k \in 1..Len(FilterInput) :
              FirstPassing(k) <=> FilterInput[k] \in Range(result)

\* An event that fails the tests, then two events with its URL that pass them:
\* the first of the two is returned.
C4_Witness ==
    /\ Finished
    /\ opts.SkipDuplicates
    /\ \E i, j, k \in 1..Len(FilterInput) :
          /\ i < j /\ j < k
          /\ FilterInput[i].SourceURL = FilterInput[j].SourceURL
          /\ FilterInput[j].SourceURL = FilterInput[k].SourceURL
          /\ ~passes(FilterInput[i], opts, now)
          /\ passes(FilterInput[j], opts, now)
          /\ passes(FilterInput[k], opts, now)
          /\ FilterInput[j] \in Range(result)
          /\ FilterInput[k] \notin Range(result)

\* The tests of the filter other than the title length, as the specification
\* lists them.
PassesOtherTests(ev) ==
    /\ ev.SourceURL # ""
    /\ ev.GKGArticle # Nil
    /\ Title(ev) # <<>>
    /\ DateAddedTime(ev.DateAdded).ok
    /\ opts.SkipFutureEvents => ~After(DateAddedTime(ev.DateAdded).t, now)
    /\ \/ opts.AllowedCameoRootCodes = <<>>
       \/ ev.EventRootCode \in Range(opts.AllowedCameoRootCodes)

\* C5: an event is excluded for its title only when a maximum is configured
\* (MaxTitleLength is not zero) and the title has more code points than it.
C5_TitleLimitOnlyWhenConfigured ==
    Finished =>
        \A k \in 1..Len(FilterInput) :
            /\ PassesOtherTests(FilterInput[k])
            /\ ~(opts.MaxTitleLength # 0
                 /\ RuneLen(Title(FilterInput[k])) > opts.MaxTitleLength)
            /\ \A j \in 1..(k - 1) :
                  FilterInput[j].SourceURL # FilterInput[k].SourceURL
            => FilterInput[k] \in Range(result)

RECURSIVE IsSubseq(_, _)
IsSubseq(s, t) ==
    IF Len(s) = 0 THEN TRUE
    ELSE IF Len(t) = 0 THEN FALSE
    ELSE IF Head(s) = Head(t) THEN IsSubseq(Tail(s), Tail(t))
    ELSE IsSubseq(s, Tail(t))

\* The events are those decoded from rows of the feed's export file, in the
\* order of the rows.
InDecodeOrder(events, f) ==
    /\ \A i \in 1..Len(events) : events[i].ptr[1] = f
    /\ \A i, j \in 1..Len(events) : i < j => events[i].ptr[2] < events[j].ptr[2]

\* C6: the result is a subsequence of the events of the primary feed followed
\* by those of the translingual feed, each in decode order and each as it was
\* handed to the filter.
C6_ResultIsSubsequenceOfInput ==
    Finished =>
        /\ IsSubseq(result, FilterInput)
        /\ InDecodeOrder(a, LastUpdateURL)
        /\ InDecodeOrder(b, LastUpdateTranslationURL)

\* Events of both feeds are returned and an event between them is left out.
C6_Witness ==
    /\ Finished
    /\ Len(result) >= 2
    /\ Len(result) < Len(FilterInput)
    /\ result[1].ptr[1] = LastUpdateURL
    /\ result[Len(result)].ptr[1] = LastUpdateTranslationURL
    /\ \E i \in 1..Len(FilterInput) :
          /\ FilterInput[i] \notin Range(result)
          /\ \E j \in 1..(i - 1) : FilterInput[j] \in Range(result)

\* The checks of an archive in the order the specification gives them, and
\* the place of the first one a response fails (the last when it fails none).
AllChecks == <<"status", "size", "md5", "zip", "entries", "decode">>

FirstFailing(x, ref) ==
    IF x.transport \/ x.status # StatusOK THEN 1
    ELSE IF x.len # ref.Size THEN 2
    ELSE IF x.md5 # ref.MD5Sum THEN 3
    ELSE IF ~x.zip THEN 4
    ELSE IF Len(x.files) # 1 THEN 5
    ELSE 6

\* The message of the error for a failed check.
CheckMessages(x) ==
    <<IF x.transport THEN "transport" ELSE "bad HTTP response status code",
      "expected content size", "md5 sum", "zip reader error", "want 1 file in zip">>

ChecksInOrder(trace, x, ref) ==
    /\ trace = SubSeq(AllChecks, 1, FirstFailing(x, ref))
    /\ pc = "pollReturn" /\ FirstFailing(x, ref) < Len(AllChecks)
          => pollErr.msg = CheckMessages(x)[FirstFailing(x, ref)]

\* C7: the fetch of the export and of the GKG archive checks the status, the
\* length, the checksum and the number of entries in this order, stops at the
\* first check that fails, and decodes rows only when none fails.
C7_ArchiveChecksInOrder ==
    /\ pc \in {"getArticles", "correlate", "pollReturn"} /\ checks[feed].export # <<>>
          => ChecksInOrder(checks[feed].export, Serve(feed, fr.Export.URL), fr.Export)
    /\ pc \in {"correlate", "pollReturn"} /\ checks[feed].gkg # <<>>
          => ChecksInOrder(checks[feed].gkg, Serve(feed, fr.GKG.URL), fr.GKG)
    /\ pc \in {"getArticles", "correlate"}
          => FirstFailing(Serve(feed, fr.Export.URL), fr.Export) = Len(AllChecks)
    /\ pc = "correlate"
          => FirstFailing(Serve(feed, fr.GKG.URL), fr.GKG) = Len(AllChecks)
    /\ Len(evs) > 0 => "decode" \in Range(checks[feed].export)
    /\ Len(articles) > 0 => "decode" \in Range(checks[feed].gkg)

\* A GKG body of the wrong length, with the wrong checksum and two entries is
\* rejected after the length check.
C7_Witness ==
    /\ pc = "pollReturn"
    /\ LET x == Serve(feed, fr.GKG.URL)
       IN /\ ~x.transport /\ x.status = StatusOK
          /\ x.len # fr.GKG.Size
          /\ x.md5 # fr.GKG.MD5Sum
          /\ Len(x.files) = 2
    /\ checks[feed].gkg = <<"status", "size">>
    /\ "decode" \in Range(checks[feed].export)

\* C8: a GKG row that does not have 27 columns is skipped and the rows after it
\* are decoded: the poll is never aborted for it, wherever the row is.
C8_ArticleRowErrorIsSkipped ==
    /\ pollErr.msg # "expected 27 CSV columns"
    /\ pc = "correlate" =>
          {articles[i].ptr[2] : i \in 1..Len(articles)}
             = {k \in 1..Len(net[feed].gkg.files[1]) :
                   net[feed].gkg.files[1][k].ncols = ArticleColumns}

\* C9: GeoTypeFromInt refuses every integer outside 0..5, so that no event is
\* decoded from a row with such a geo type in one of its three blocks.
C9_GeoTypeOutOfRangeIsRejected ==
    pc = "getArticles" =>
        \A k \in 1..Len(net[feed].export.files[1]) : \A j \in 1..3 :
            LET g == net[feed].export.files[1][k].geo[j]
            IN g.isInt /\ g.val \notin 0..MaxGeoType
                  => /\ ~GeoTypeFromInt(g.val).ok
                     /\ \A i \in 1..Len(evs) : evs[i].ptr[2] # k

\* The time a 14-digit value spells.
Spelled(d) == <<Num4(d, 1), Num2(d, 5), Num2(d, 7), Num2(d, 9), Num2(d, 11), Num2(d, 13)>>

IsCalendarTime(t) ==
    /\ t[2] \in 1..12
    /\ t[3] \in 1..DaysIn(t[2], t[1])
    /\ t[4] \in 0..23
    /\ t[5] \in 0..59
    /\ t[6] \in 0..59

\* C10: DateAddedTime fails for every DateAdded that does not have exactly 14
\* digits, and gives the time a 14-digit value spells.
C10_DateAddedNeeds14Digits ==
    Finished =>
        \A i \in 1..Len(FilterInput) :
            LET d == FilterInput[i].DateAdded
            IN /\ Len(d) # DateAddedWidth => ~DateAddedTime(d).ok
               /\ Len(d) = DateAddedWidth /\ IsCalendarTime(Spelled(d))
                     => DateAddedTime(d) = [ok |-> TRUE, t |-> Spelled(d)]

\* The articles of the poll in progress with the DocumentIdentifier url.
Matches(url) == {k \in 1..Len(articles) : articles[k].DocumentIdentifier = url}

\* The GKG file of the feed decodes without an error of makeArticle.
GKGDecodes(f) ==
    LET rows == net[f].gkg.files[1]
    IN Len(rows) = 0 \/ rows[1].ncols = ArticleColumns

\* C11: after a successful poll every event has no article exactly when no
\* article of the poll has its SourceURL as DocumentIdentifier, and else has
\* the one article of the poll that does; an event without a match is no
\* error, and no event has an article of the other feed.
C11_EventLinkedToItsArticle ==
    /\ pc = "pollReturn" /\ pollErr = NoError =>
          \A i \in 1..Len(evs) :
              /\ evs[i].GKGArticle = Nil <=> Matches(evs[i].SourceURL) = {}
              /\ evs[i].GKGArticle # Nil =>
                    /\ Cardinality(Matches(evs[i].SourceURL)) = 1
                    /\ \E k \in Matches(evs[i].SourceURL) :
                          Deref(evs[i].GKGArticle) = articles[k]
    /\ pc = "pollReturn" /\ PollClass(feed) = "ok" /\ GKGDecodes(feed)
          => pollErr = NoError
    /\ \A f \in Feeds : \A i \in 1..Len(EventsOf(f)) :
          /\ EventsOf(f)[i].ptr[1] = f
          /\ EventsOf(f)[i].GKGArticle # Nil
                => Deref(EventsOf(f)[i].GKGArticle).ptr[1] = f

\* Both feeds have an article for a URL, the translingual poll has returned,
\* and an event of each feed has the article of its own feed while an event
\* of the primary feed without a match has none.
C11_Witness ==
    /\ pc \in {"filter", "done"}
    /\ err = NoError
    /\ \E i \in 1..Len(a), j \in 1..Len(b) :
          /\ a[i].SourceURL = b[j].SourceURL
          /\ a[i].GKGArticle # Nil
          /\ b[j].GKGArticle # Nil
          /\ a[i].GKGArticle # b[j].GKGArticle
    /\ \E i \in 1..Len(a) : a[i].GKGArticle = Nil

\* The codes of the receiver from broadest to narrowest.
CameoLevels == <<cameo.e.EventRootCode, cameo.e.EventBaseCode, cameo.e.EventCode>>

RowsWith(suffix) ==
    {i \in 1..Len(net[feed].manifest.rows) :
        net[feed].manifest.rows[i].url.suffix = suffix}

\* C13: when parseFileReferencesResponse succeeds, each of the slots Export,
\* Mentions and GKG was filled by exactly one row of the manifest: a manifest
\* with the same suffix on two rows, which leaves a slot empty, is refused.
C13_EachSlotFilledByOneRow ==
    pc = "getEvents" =>
        /\ \A suffix \in KnownSuffixes : Cardinality(RowsWith(suffix)) = 1
        /\ fr.Export.URL.suffix = ExportSuffix
        /\ fr.Mentions.URL.suffix = MentionsSuffix
        /\ fr.GKG.URL.suffix = GKGSuffix

\* C14: the loops of processEventFile and processArticleFile end for every
\* archive entry: every iteration that does not end the loop has consumed one
\* row of the stream, also after a read error that is not the end of the
\* stream, so that the loop runs at most once more than the stream has rows.
C14_DecodeLoopTerminates ==
    dec.pc = "loop" =>
        /\ dec.i = dec.pos - 1
        /\ dec.pos <= Len(dec.stream) + 1

====
